---- MODULE Spec2Model ----
(***************************************************************************)
(* Half-edge mesh of dantoso/3DMeshExercises (HEdge, HFace, HVertex and    *)
(* HedgeMesh).  Objects live in the three arrays of the mesh; a reference  *)
(* to an object is its 1-based position in its array (edges and faces are  *)
(* only ever pushed, so the position is the object's identity).  Null is   *)
(* JavaScript's null and Undef is JavaScript's undefined.  A vertex's ID   *)
(* is the 0-based number the code assigns.                                 *)
(***************************************************************************)
EXTENDS Integers, Sequences, FiniteSets, TLC

VARIABLES vertices, edges, faces, needsDisplayUpdate, origin, last, moves

vars == <<vertices, edges, faces, needsDisplayUpdate, origin, last, moves>>

Null == 0
Undef == 0 - 1

\* ----------------------------------------------------------------- numbers
\* A JavaScript number is modelled as a fraction n/d in lowest terms with
\* d > 0, or as one of the three special values with d = 0: NaN (n = 0),
\* Infinity (n = 1) and -Infinity (n = -1).  Sums are exact; products,
\* reciprocals and square roots are rounded toward zero to a multiple of
\* 1/Precision, as the code's arithmetic is rounded to the precision of its
\* number type.  Signed zeros are not modelled.
Precision == 60

RECURSIVE Gcd(_, _)
Gcd(a, b) == IF b = 0 THEN a ELSE Gcd(b, a % b)

Abs(x) == IF x < 0 THEN 0 - x ELSE x

Sign(x) == IF x < 0 THEN 0 - 1 ELSE IF x > 0 THEN 1 ELSE 0

Frac(n, d) ==
    IF d = 0 THEN [n |-> Sign(n), d |-> 0]
    ELSE LET g == Gcd(Abs(n), Abs(d))
         IN  [n |-> Sign(d) * (n \div g), d |-> Abs(d) \div g]

Num(i) == [n |-> i, d |-> 1]

NaN == [n |-> 0, d |-> 0]

IsNaN(x) == x.d = 0 /\ x.n = 0

IsFinite(x) == x.d # 0

\* n/d (n >= 0, d > 0) rounded down to a multiple of 1/Precision.
RoundDown(n, d) ==
    Frac((n \div d) * Precision + ((n % d) * Precision) \div d, Precision)

\* n/d (d > 0) rounded toward zero.
Round(n, d) == IF n < 0 THEN [RoundDown(0 - n, d) EXCEPT !.n = 0 - @]
               ELSE RoundDown(n, d)

NAdd(a, b) ==
    IF IsNaN(a) \/ IsNaN(b) THEN NaN
    ELSE IF ~IsFinite(a) THEN (IF ~IsFinite(b) /\ a.n # b.n THEN NaN ELSE a)
    ELSE IF ~IsFinite(b) THEN b
    ELSE Frac(a.n * b.d + b.n * a.d, a.d * b.d)

NMul(a, b) ==
    IF IsNaN(a) \/ IsNaN(b) THEN NaN
    ELSE IF ~IsFinite(a) \/ ~IsFinite(b)
    THEN [n |-> Sign(a.n) * Sign(b.n), d |-> 0]
    ELSE Round(a.n * b.n, a.d * b.d)

NNeg(a) == [n |-> 0 - a.n, d |-> a.d]

\* 1/a; 1/0 is Infinity.
NRecip(a) ==
    IF IsNaN(a) THEN NaN
    ELSE IF ~IsFinite(a) THEN Num(0)
    ELSE IF a.n = 0 THEN [n |-> 1, d |-> 0]
    ELSE Round(Sign(a.n) * a.d, Abs(a.n))

\* a > 0 as JavaScript evaluates it (false for NaN).
NGt0(a) == a.n > 0

\* Largest r in lo..hi with r * r <= n.
RECURSIVE ISqrtIn(_, _, _)
ISqrtIn(n, lo, hi) ==
    IF lo >= hi THEN lo
    ELSE LET mid == (lo + hi + 1) \div 2
         IN  IF mid * mid <= n THEN ISqrtIn(n, mid, hi)
             ELSE ISqrtIn(n, lo, mid - 1)

\* 46340 is the largest integer whose square fits in 32 bits, the width of the
\* integers the fractions are computed with.
ISqrt(n) == ISqrtIn(n, 0, IF n < 46340 THEN n ELSE 46340)

NSqrt(a) ==
    IF IsNaN(a) \/ a.n < 0 THEN NaN
    ELSE IF ~IsFinite(a) THEN a
    ELSE Frac(ISqrt((a.n \div a.d) * Precision * Precision
                    + ((a.n % a.d) * Precision * Precision) \div a.d),
              Precision)

\* ------------------------------------------------------------ glMatrix vec3
VAdd(a, b) == [i \in 1..3 |-> NAdd(a[i], b[i])]

VNegate(a) == [i \in 1..3 |-> NNeg(a[i])]

VScale(a, k) == [i \in 1..3 |-> NMul(a[i], k)]

\* The component after component i, cyclically.
Cyc(i) == (i % 3) + 1

VCross(a, b) ==
    [i \in 1..3 |->
        NAdd(NMul(a[Cyc(i)], b[Cyc(i + 1)]),
             NNeg(NMul(a[Cyc(i + 1)], b[Cyc(i)])))]

Sq(x) == NMul(x, x)

VSquaredLength(a) == NAdd(NAdd(Sq(a[1]), Sq(a[2])), Sq(a[3]))

VLength(a) == NSqrt(VSquaredLength(a))

\* The factor vec3.normalize scales by, given the squared length: 1/sqrt of
\* it when it is > 0, else (the zero vector, a NaN) the squared length.
NormalizeFactor(len) == IF NGt0(len) THEN NRecip(NSqrt(len)) ELSE len

VNormalize(a) == VScale(a, NormalizeFactor(VSquaredLength(a)))

VZero == <<Num(0), Num(0), Num(0)>>

getVectorBetweenPoints(a, b) == VAdd(a, VNegate(b))

\* ------------------------------------------------------------------ bounds
\* Largest number of polygons in an input file made of arbitrary polygons.
MaxFaces == 2
\* Largest number of input positions beyond those the polygons use.
MaxExtraVerts == 1
\* Largest number of calls that move vertices in one session.
MaxMoves == 1

\* ------------------------------------------------------------------ input
\* The polygons an arbitrary input face is drawn from, as 0-based vertex
\* indices: two CCW faces of a tetrahedron, one of them reversed, a quad, a
\* triangle on further vertices (disjoint from some of the others, meeting
\* others in one vertex only), and the degenerate polygons: a 2-gon, a
\* polygon that repeats a vertex, a 1-gon and the empty polygon.
Polygons ==
    { <<0, 2, 1>>, <<0, 1, 3>>, <<0, 1, 2>>, <<0, 1, 2, 3>>, <<3, 4, 5>>,
      <<0, 1>>, <<0, 0, 1>>, <<0>>, <<>> }

\* A closed, consistently CCW-oriented tetrahedron.
Tetrahedron == << <<0, 2, 1>>, <<0, 1, 3>>, <<1, 2, 3>>, <<0, 3, 2>> >>

RECURSIVE SeqsUpTo(_, _)
SeqsUpTo(S, n) ==
    IF n = 0 THEN { <<>> }
    ELSE LET shorter == SeqsUpTo(S, n - 1)
         IN  shorter \cup { Append(s, x) : s \in shorter, x \in S }

Range(s) == { s[i] : i \in 1..Len(s) }

SetMax(S) == CHOOSE x \in S : \A y \in S : y <= x

\* The faces of mesh fs in the order ord (a sequence of distinct positions).
Pick(fs, ord) == [i \in 1..Len(ord) |-> fs[ord[i]]]

\* Every list of distinct faces of fs, in every order.
SubMeshes(fs) ==
    { Pick(fs, ord) :
        ord \in { o \in SeqsUpTo(1..Len(fs), Len(fs)) :
                    \A i, j \in 1..Len(o) : i # j => o[i] # o[j] } }

FaceLists == SeqsUpTo(Polygons, MaxFaces) \cup SubMeshes(Tetrahedron)

\* Number of positions the polygons of a face list need.
UsedVerts(fs) ==
    LET ids == UNION { Range(fs[i]) : i \in 1..Len(fs) }
    IN  IF ids = {} THEN 0 ELSE SetMax(ids) + 1

\* Position of input vertex i (0-based): the corners of a tetrahedron, then
\* points of a parabola through the last corner, no three of them collinear.
InputPos(i) ==
    CASE i = 0 -> <<Num(0), Num(0), Num(0)>>
      [] i = 1 -> <<Num(1), Num(0), Num(0)>>
      [] i = 2 -> <<Num(0), Num(1), Num(0)>>
      [] i = 3 -> <<Num(0), Num(0), Num(1)>>
      [] OTHER -> <<Num(i - 3), Num((i - 3) * (i - 3)), Num(1)>>

\* Color of input vertex i.
InputColor(i) == <<Num(i), Num(i), Num(i)>>

\* The polygon soup res of loadFileFromLines: positions, colors, faces.
Soups ==
    { [nV |-> UsedVerts(fs) + x, faces |-> fs] :
        fs \in FaceLists, x \in 0..MaxExtraVerts }

\* ------------------------------------------------------------- components
NewHEdge ==
    [head |-> Null, face |-> Null, pair |-> Null, prev |-> Null,
     next |-> Null, ID |-> Undef, isChecked |-> Undef]

NewHFace == [h |-> Null, ID |-> Undef]

NewHVertex(pos, color) == [pos |-> pos, color |-> color, h |-> Null, ID |-> Undef]

\* ---------------------------------------------------------- str2Hedge
\* A JavaScript object with string keys that are not array indices: for-in
\* visits the keys in the order of their first insertion, and an assignment
\* to a key that exists replaces its value in place.
HasKey(tab, key) == \E i \in 1..Len(tab) : tab[i].key = key

KeyIndex(tab, key) == CHOOSE i \in 1..Len(tab) : tab[i].key = key

GetKey(tab, key) == tab[KeyIndex(tab, key)].val

PutKey(tab, key, val) ==
    IF HasKey(tab, key)
    THEN [tab EXCEPT ![KeyIndex(tab, key)].val = val]
    ELSE Append(tab, [key |-> key, val |-> val])

\* ------------------------------------------------------- loadFileFromLines
\* Fault injected for C4: addHalfEdge without the assignment face.h = edge.
addHalfEdgeNoFaceEdge(st, v1, v2, face) ==
    LET hedge == Len(st.E) + 1
    IN  [st EXCEPT
            !.E = Append(@, [NewHEdge EXCEPT !.head = v2, !.face = face]),
            !.V[v1].h = hedge,
            !.str2Hedge = PutKey(@, <<st.V[v1].ID, st.V[v2].ID>>, hedge)]

\* addHalfEdge(v1, v2, face) followed by the two assignments that follow the
\* call in step 3.  st is the mesh under construction with the hash table.
addHalfEdge(st, v1, v2, face) ==
    LET hedge == Len(st.E) + 1
    IN  [st EXCEPT
            !.E = Append(@, [NewHEdge EXCEPT !.head = v2, !.face = face]),
            !.V[v1].h = hedge,
            !.str2Hedge = PutKey(@, <<st.V[v1].ID, st.V[v2].ID>>, hedge),
            !.F[face].h = hedge]

RECURSIVE AddFaceEdges(_, _, _, _)
AddFaceEdges(st, vertsi, face, k) ==
    IF k > Len(vertsi) THEN st
    ELSE AddFaceEdges(
            addHalfEdge(st, vertsi[k], vertsi[(k % Len(vertsi)) + 1], face),
            vertsi, face, k + 1)

\* Fault injected for C2: makeNextPrev without the assignment h2.prev = h1.
makeNextOnly(E, h1, h2) == [E EXCEPT ![h1].next = h2]

\* makeNextPrev as step 3 writes it out: h1.next = h2; h2.prev = h1.
makeNextPrev(E, h1, h2) == [E EXCEPT ![h1].next = h2, ![h2].prev = h1]

RECURSIVE LinkFaceEdges(_, _, _)
LinkFaceEdges(st, vertsi, k) ==
    IF k > Len(vertsi) THEN st
    ELSE LinkFaceEdges(
            [st EXCEPT !.E = makeNextPrev(@, st.V[vertsi[k]].h,
                                          st.V[vertsi[(k % Len(vertsi)) + 1]].h)],
            vertsi, k + 1)

RECURSIVE AddFaces(_, _, _)
AddFaces(st, fs, i) ==
    IF i > Len(fs) THEN st
    ELSE LET vertsi == [k \in 1..Len(fs[i]) |-> fs[i][k] + 1]
             withFace == [st EXCEPT !.F = Append(@, NewHFace)]
             added == AddFaceEdges(withFace, vertsi, Len(withFace.F), 1)
         IN  AddFaces(LinkFaceEdges(added, vertsi, 1), fs, i + 1)

\* Fault injected for C5: the key looked up in step 4 is the edge's own key.
SameKey(key) == key

\* The key of the opposite directed edge: v1v2[1]+"_"+v1v2[0].
OtherKey(key) == <<key[2], key[1]>>

\* Fault injected for C1: the boundary half-edge is made without its pair.
BoundaryHEdgeNoPair(h1, v1) == [NewHEdge EXCEPT !.head = v1]

\* The half-edge h2 step 4 makes opposite a boundary edge h1 with tail v1.
BoundaryHEdge(h1, v1) == [NewHEdge EXCEPT !.pair = h1, !.head = v1]

\* Step 4: one pass over the keys of str2Hedge.  boundaryEdges is a function
\* from the tail IDs seen so far to the boundary edge stored last under it.
RECURSIVE PairEdges(_, _)
PairEdges(st, i) ==
    IF i > Len(st.str2Hedge) THEN st
    ELSE LET key == st.str2Hedge[i].key
             h1 == st.str2Hedge[i].val
             other == OtherKey(key)
             h2 == Len(st.E) + 1
         IN  IF HasKey(st.str2Hedge, other)
             THEN PairEdges(
                    [st EXCEPT !.E[h1].pair = GetKey(st.str2Hedge, other)],
                    i + 1)
             ELSE PairEdges(
                    [st EXCEPT
                        !.E = Append([@ EXCEPT ![h1].pair = h2],
                                     BoundaryHEdge(h1, key[1] + 1)),
                        !.boundaryEdges =
                            [t \in (DOMAIN @) \cup {key[2]} |->
                                IF t = key[2] THEN h2 ELSE @[t]]],
                    i + 1)

\* Step 5: the keys of boundaryEdges are array indices, which for-in visits in
\* ascending numeric order.  A missing entry reads as undefined, and the write
\* e2.prev = e then throws a TypeError, after e.next = undefined.
RECURSIVE LinkBoundary(_, _)
LinkBoundary(st, keys) ==
    IF keys = {} \/ st.thrown THEN st
    ELSE LET key == CHOOSE t \in keys : \A u \in keys : t <= u
             e == st.boundaryEdges[key]
             tail == st.V[st.E[e].head].ID
             rest == keys \ {key}
         IN  IF st.E[e].next # Null THEN LinkBoundary(st, rest)
             ELSE IF tail \in DOMAIN st.boundaryEdges
             THEN LinkBoundary(
                    [st EXCEPT !.E = makeNextPrev(@, e, st.boundaryEdges[tail])],
                    rest)
             ELSE [st EXCEPT !.E[e].next = Undef, !.thrown = TRUE]

\* Steps 1.5 to 7 of loadFileFromLines on the polygon soup res.
loadFileFromLines(res) ==
    LET V == [i \in 1..res.nV |->
                [NewHVertex(InputPos(i - 1), InputColor(i - 1)) EXCEPT !.ID = i - 1]]
        st0 == [V |-> V, E |-> <<>>, F |-> <<>>, str2Hedge |-> <<>>,
                boundaryEdges |-> <<>>, thrown |-> FALSE]
        st3 == AddFaces(st0, res.faces, 1)
        st4 == PairEdges(st3, 1)
        st5 == LinkBoundary(st4, DOMAIN st4.boundaryEdges)
    IN  IF st5.thrown
        THEN [V |-> st5.V, E |-> st5.E, F |-> st5.F, thrown |-> TRUE]
        ELSE [V |-> st5.V,
              E |-> [i \in 1..Len(st5.E) |-> [st5.E[i] EXCEPT !.ID = i - 1]],
              F |-> [i \in 1..Len(st5.F) |-> [st5.F[i] EXCEPT !.ID = i - 1]],
              thrown |-> FALSE]

\* -------------------------------------------------------------------- HFace
\* The walk of HFace.getEdges: the edges from h along
\* next until start comes back.  The walk is deterministic, so once it has
\* pushed as many items as the mesh has edges without meeting start it never
\* will ("hang"); following next from null or undefined is a TypeError.
RECURSIVE WalkNext(_, _, _, _)
WalkNext(E, start, h, acc) ==
    IF h = start THEN [out |-> "ok", val |-> acc]
    ELSE IF h = Null \/ h = Undef THEN [out |-> "TypeError", val |-> acc]
    ELSE IF Len(acc) > Len(E) THEN [out |-> "hang", val |-> acc]
    ELSE WalkNext(E, start, E[h].next, Append(acc, h))

HFace_getEdges(E, face) ==
    IF face.h = Null THEN [out |-> "ok", val |-> <<>>]
    ELSE WalkNext(E, face.h, E[face.h].next, <<face.h>>)

\* The loop of HFace.getVertices: the heads of the edges from h along next
\* until start comes back.
RECURSIVE WalkHeads(_, _, _, _)
WalkHeads(E, start, h, acc) ==
    IF h = start THEN [out |-> "ok", val |-> acc]
    ELSE IF h = Null \/ h = Undef THEN [out |-> "TypeError", val |-> acc]
    ELSE IF Len(acc) > Len(E) THEN [out |-> "hang", val |-> acc]
    ELSE WalkHeads(E, start, E[h].next, Append(acc, E[h].head))

\* Fault injected for C11: the heads of getEdges rotated by one, the list
\* starting with the head of the second boundary edge.
HFace_getVerticesRotated(E, face) ==
    LET es == HFace_getEdges(E, face)
    IN  [out |-> es.out,
         val |-> [k \in 1..Len(es.val) |->
                    E[es.val[(k % Len(es.val)) + 1]].head]]

HFace_getVertices(E, face) ==
    IF face.h = Null THEN [out |-> "ok", val |-> <<>>]
    ELSE WalkHeads(E, face.h, E[face.h].next, <<E[face.h].head>>)

\* An object reference that can be dereferenced.
IsRef(x) == x # Null /\ x # Undef

\* The vector getArea and getNormal take along half-edge e: from the head of
\* e.prev to the head of e.
EdgeVector(m, e) ==
    getVectorBetweenPoints(m.V[m.E[e].head].pos, m.V[m.E[m.E[e].prev].head].pos)

\* HFace.getArea of face f of mesh m = [V, E, F].
RECURSIVE AreaSum(_, _, _, _)
AreaSum(m, es, i, result) ==
    IF i > Len(es) - 2 THEN [out |-> "ok", val |-> VLength(result)]
    ELSE IF ~IsRef(m.E[es[i]].prev) \/ ~IsRef(m.E[es[i + 1]].prev)
    THEN [out |-> "TypeError", val |-> NaN]
    ELSE AreaSum(m, es, i + 1,
                 VAdd(result,
                      VScale(VCross(EdgeVector(m, es[i]),
                                    EdgeVector(m, es[i + 1])),
                             Frac(1, 2))))

AreaOfEdges(m, es) ==
    IF es.out # "ok" THEN [out |-> es.out, val |-> NaN]
    ELSE AreaSum(m, es.val, 1, VZero)

HFace_getArea(m, f) == AreaOfEdges(m, HFace_getEdges(m.E, m.F[f]))

\* HFace.getNormal of the face with stored edge h.
NormalAt(m, h) ==
    IF ~IsRef(h) THEN [out |-> "TypeError", val |-> VZero]
    ELSE IF ~IsRef(m.E[h].prev) \/ ~IsRef(m.E[h].next)
    THEN [out |-> "TypeError", val |-> VZero]
    ELSE [out |-> "ok",
          val |-> VNormalize(VCross(EdgeVector(m, h),
                    getVectorBetweenPoints(m.V[m.E[m.E[h].next].head].pos,
                                           m.V[m.E[h].head].pos)))]

HFace_getNormal(m, f) == NormalAt(m, m.F[f].h)

\* ------------------------------------------------------------------ HVertex
\* while (edge.head.ID != this.ID) edge = edge.next: the edge the loop stops
\* at.  n counts the steps; after as many steps as there are edges the loop
\* has been at some edge twice and never stops.
RECURSIVE SeekHead(_, _, _, _)
SeekHead(m, edge, id, n) ==
    IF ~IsRef(edge) THEN [out |-> "TypeError", edge |-> edge]
    ELSE IF m.V[m.E[edge].head].ID = id THEN [out |-> "ok", edge |-> edge]
    ELSE IF n >= Len(m.E) THEN [out |-> "hang", edge |-> edge]
    ELSE SeekHead(m, m.E[edge].next, id, n + 1)

\* edge = edge.pair at the edge back the loop above stopped at; reading a
\* field of a null or undefined pair afterwards is a TypeError.
PairOf(m, back) ==
    IF back.out # "ok" THEN back
    ELSE IF ~IsRef(m.E[back.edge].pair)
    THEN [out |-> "TypeError", edge |-> m.E[back.edge].pair]
    ELSE [out |-> "ok", edge |-> m.E[back.edge].pair]

\* The inner loop and the step to the pair: from an edge out of vertex v
\* around its face to the edge into v, and across to the next edge out of v.
NextSpoke(m, v, edge) == PairOf(m, SeekHead(m, edge, m.V[v].ID, 0))

\* The repair step the two accessors start with: the edge this.h is set to.
RepairedH(m, v) ==
    IF m.V[m.E[m.V[v].h].head].ID = m.V[v].ID
    THEN m.E[m.V[v].h].next
    ELSE m.V[v].h

\* The do-while loop of getVertexNeighbors, entered with edge; n counts its
\* rounds, and a round that starts after as many rounds as there are edges
\* starts at an edge a round started at before.
RECURSIVE NeighborLoop(_, _, _, _, _)
RECURSIVE NeighborRound(_, _, _, _, _)
NeighborLoop(m, v, edge, neighbors, n) ==
    IF ~IsRef(edge) THEN [out |-> "TypeError", val |-> neighbors]
    ELSE IF n > Len(m.E) THEN [out |-> "hang", val |-> neighbors]
    ELSE NeighborRound(m, v, NextSpoke(m, v, edge),
                       Append(neighbors, m.E[edge].head), n)

NeighborRound(m, v, spoke, neighbors, n) ==
    IF spoke.out # "ok" THEN [out |-> spoke.out, val |-> neighbors]
    ELSE IF m.V[m.E[spoke.edge].head].ID # m.V[neighbors[1]].ID
    THEN NeighborLoop(m, v, spoke.edge, neighbors, n + 1)
    ELSE [out |-> "ok", val |-> neighbors]

\* The result of an accessor with the value of this.h after the call.
WithH(r, h) == [out |-> r.out, val |-> r.val, h |-> h]

\* HVertex.getVertexNeighbors of vertex v: the outcome, the list, and the
\* value of this.h after the call.
getVertexNeighbors(m, v) ==
    IF m.V[v].h = Null THEN [out |-> "ok", val |-> <<>>, h |-> Null]
    ELSE IF m.V[v].h = Undef
    THEN [out |-> "TypeError", val |-> <<>>, h |-> Undef]
    ELSE WithH(NeighborLoop(m, v, RepairedH(m, v), <<>>, 0), RepairedH(m, v))

\* Fault injected for C13: getAttachedFaces without its second hop.
NoBoundaryHop(m, v, spoke) == spoke

\* The second hop of getAttachedFaces: taken when the spoke reached has no
\* face.
BoundaryHop(m, v, spoke) ==
    IF spoke.out = "ok" /\ m.E[spoke.edge].face = Null
    THEN NextSpoke(m, v, spoke.edge)
    ELSE spoke

\* The do-while loop of getAttachedFaces.
RECURSIVE FaceLoop(_, _, _, _, _)
RECURSIVE FaceRound(_, _, _, _, _)
FaceLoop(m, v, edge, fcs, n) ==
    IF ~IsRef(edge) THEN [out |-> "TypeError", val |-> fcs]
    ELSE IF n > Len(m.E) THEN [out |-> "hang", val |-> fcs]
    ELSE FaceRound(m, v, BoundaryHop(m, v, NextSpoke(m, v, edge)),
                   IF m.E[edge].face # Null THEN Append(fcs, m.E[edge].face)
                   ELSE fcs,
                   n)

FaceRound(m, v, spoke, fcs, n) ==
    IF spoke.out # "ok" THEN [out |-> spoke.out, val |-> fcs]
    ELSE IF m.E[spoke.edge].face = Null \/ fcs = <<>>
    THEN [out |-> "TypeError", val |-> fcs]
    ELSE IF m.F[m.E[spoke.edge].face].ID # m.F[fcs[1]].ID
    THEN FaceLoop(m, v, spoke.edge, fcs, n + 1)
    ELSE [out |-> "ok", val |-> fcs]

getAttachedFaces(m, v) ==
    IF m.V[v].h = Null THEN [out |-> "ok", val |-> <<>>, h |-> Null]
    ELSE IF m.V[v].h = Undef
    THEN [out |-> "TypeError", val |-> <<>>, h |-> Undef]
    ELSE WithH(FaceLoop(m, v, RepairedH(m, v), <<>>, 0), RepairedH(m, v))

\* The loop of HVertex.getNormal over the attached faces fcs.
RECURSIVE NormalSum(_, _, _, _, _)
RECURSIVE NormalTerm(_, _, _, _, _, _, _)
NormalSum(m, fcs, i, normal, areaSum) ==
    IF i > Len(fcs)
    THEN [out |-> "ok", val |-> VScale(normal, NRecip(areaSum))]
    ELSE NormalTerm(m, fcs, i, normal, areaSum,
                    HFace_getNormal(m, fcs[i]), HFace_getArea(m, fcs[i]))

NormalTerm(m, fcs, i, normal, areaSum, faceNormal, area) ==
    IF faceNormal.out # "ok" THEN [out |-> faceNormal.out, val |-> normal]
    ELSE IF area.out # "ok" THEN [out |-> area.out, val |-> normal]
    ELSE NormalSum(m, fcs, i + 1,
                   VAdd(normal, VScale(faceNormal.val, area.val)),
                   NAdd(areaSum, area.val))

NormalOver(m, fcs) ==
    IF fcs.out # "ok" THEN [out |-> fcs.out, val |-> VZero, h |-> fcs.h]
    ELSE WithH(NormalSum(m, fcs.val, 1, VZero, Num(0)), fcs.h)

\* HVertex.getNormal of vertex v: outcome, normal, and this.h afterwards.
HVertex_getNormal(m, v) == NormalOver(m, getAttachedFaces(m, v))

\* ------------------------------------------------------------ inflateDeflate
\* The loop over the vertices from vertex v on; a call that throws or hangs
\* leaves the loop with the vertices before v moved.
RECURSIVE InflateFrom(_, _, _)
RECURSIVE InflateVertex(_, _, _, _)
InflateFrom(m, fac, v) ==
    IF v > Len(m.V) THEN [out |-> "ok", V |-> m.V]
    ELSE InflateVertex(m, fac, v, HVertex_getNormal(m, v))

InflateVertex(m, fac, v, nrm) ==
    IF nrm.out # "ok" THEN [out |-> nrm.out, V |-> [m.V EXCEPT ![v].h = nrm.h]]
    ELSE InflateFrom(
            [m EXCEPT !.V[v].h = nrm.h,
                      !.V[v].pos = VAdd(@, VScale(nrm.val, fac))],
            fac, v + 1)

inflateDeflate(m, fac) == InflateFrom(m, fac, 1)

\* ---------------------------------------------------- laplacianSmoothSharpen
\* The sum of the vectors from vertex v to its neighbors.
RECURSIVE NeighborSum(_, _, _, _)
NeighborSum(m, v, neighbors, i) ==
    IF i > Len(neighbors) THEN VZero
    ELSE VAdd(getVectorBetweenPoints(m.V[neighbors[i]].pos, m.V[v].pos),
              NeighborSum(m, v, neighbors, i + 1))

\* The displacement pushed on smoothedPos for a vertex with these neighbors.
Displacement(m, v, neighbors, sign) ==
    VScale(NeighborSum(m, v, neighbors, 1),
           NMul(NRecip(Num(Len(neighbors))), Num(sign)))

\* The first loop from vertex v on.
RECURSIVE SmoothedFrom(_, _, _, _)
RECURSIVE SmoothedVertex(_, _, _, _, _)
SmoothedFrom(m, sign, v, smoothedPos) ==
    IF v > Len(m.V) THEN [out |-> "ok", V |-> m.V, smoothedPos |-> smoothedPos]
    ELSE SmoothedVertex(m, sign, v, smoothedPos, getVertexNeighbors(m, v))

SmoothedVertex(m, sign, v, smoothedPos, nb) ==
    IF nb.out # "ok"
    THEN [out |-> nb.out, V |-> [m.V EXCEPT ![v].h = nb.h],
          smoothedPos |-> smoothedPos]
    ELSE SmoothedFrom([m EXCEPT !.V[v].h = nb.h], sign, v + 1,
                      Append(smoothedPos, Displacement(m, v, nb.val, sign)))

\* The second loop: every position moves by its entry of smoothedPos.
ApplySmoothed(V, smoothedPos) ==
    [i \in 1..Len(V) |-> [V[i] EXCEPT !.pos = VAdd(@, smoothedPos[i])]]

Smoothed(r) ==
    IF r.out # "ok" THEN [out |-> r.out, V |-> r.V]
    ELSE [out |-> "ok", V |-> ApplySmoothed(r.V, r.smoothedPos)]

laplacianSmoothSharpen(m, smooth) ==
    Smoothed(SmoothedFrom(m, IF smooth THEN 1 ELSE 0 - 1, 1, <<>>))

\* -------------------------------------------------------- getTriangleIndices
\* A value stored into a Uint32Array: undefined is stored as 0.
ToUint32(id) == IF id = Undef THEN 0 ELSE id

\* Fault injected for C7: a strip (t, t+1, t+2) in place of the fan.
StripTriangle(verts, t) == <<verts[t + 1], verts[t + 2], verts[t + 3]>>

\* The three indices of triangle t (0-based) of the fan of verts.
FanTriangle(verts, t) == <<verts[1], verts[t + 2], verts[t + 3]>>

RECURSIVE Fan(_, _)
Fan(verts, t) ==
    IF t >= Len(verts) - 2 THEN <<>>
    ELSE FanTriangle(verts, t) \o Fan(verts, t + 1)

\* The copy loop: i counts the triangles written, and a write past the end
\* of the typed array I (of length 3 * NumTris) is dropped.
RECURSIVE CopyTriangles(_, _, _, _, _)
CopyTriangles(allvs, NumTris, i, faceIdx, I) ==
    IF i >= NumTris THEN [out |-> "ok", val |-> SubSeq(I, 1, 3 * NumTris)]
    ELSE IF faceIdx > Len(allvs) THEN [out |-> "TypeError", val |-> <<>>]
    ELSE LET verts == allvs[faceIdx]
             n == IF Len(verts) > 2 THEN Len(verts) - 2 ELSE 0
         IN  CopyTriangles(allvs, NumTris, i + n, faceIdx + 1,
                           I \o Fan(verts, 0))

RECURSIVE SumTris(_, _)
SumTris(allvs, i) ==
    IF i > Len(allvs) THEN 0 ELSE (Len(allvs[i]) - 2) + SumTris(allvs, i + 1)

getTriangleIndices(V, E, F) ==
    LET walks == [i \in 1..Len(F) |-> HFace_getVertices(E, F[i])]
        bad == { i \in 1..Len(F) : walks[i].out # "ok" }
        allvs == [i \in 1..Len(F) |->
                    [k \in 1..Len(walks[i].val) |->
                        ToUint32(V[walks[i].val[k]].ID)]]
        NumTris == SumTris(allvs, 1)
    IN  IF bad # {}
        THEN [out |-> walks[CHOOSE i \in bad : \A j \in bad : i <= j].out,
              val |-> <<>>]
        ELSE IF NumTris < 0 THEN [out |-> "RangeError", val |-> <<>>]
        ELSE CopyTriangles(allvs, NumTris, 0, 1, <<>>)

\* --------------------------------------------------------- getBoundaryCycles
\* The inner while loop from iterated, for the cycle started at edge.  c is
\* [E, cycle, out]; the loop reads head.ID of both edges.
RECURSIVE WalkCycle(_, _, _, _)
WalkCycle(V, c, edge, iterated) ==
    IF iterated = Null \/ iterated = Undef THEN [c EXCEPT !.out = "TypeError"]
    ELSE IF V[c.E[iterated].head].ID = V[c.E[edge].head].ID THEN c
    ELSE IF Len(c.cycle) > Len(c.E) THEN [c EXCEPT !.out = "hang"]
    ELSE WalkCycle(V,
                   [c EXCEPT !.cycle = Append(@, iterated),
                             !.E[iterated].isChecked = TRUE],
                   edge, c.E[iterated].next)

\* Fault injected for C6: isChecked is not looked at.
StartsCycleUnchecked(e) == e.face = Null

\* Whether the second loop starts a cycle at edge e.
StartsCycle(e) == e.face = Null /\ ~e.isChecked

RECURSIVE CollectCycles(_, _, _)
CollectCycles(V, r, i) ==
    IF i > Len(r.E) \/ r.out # "ok" THEN r
    ELSE IF ~StartsCycle(r.E[i]) THEN CollectCycles(V, r, i + 1)
    ELSE LET c == WalkCycle(V,
                            [E |-> [r.E EXCEPT ![i].isChecked = TRUE],
                             cycle |-> <<i>>, out |-> "ok"],
                            i, r.E[i].next)
         IN  CollectCycles(V,
                           [E |-> c.E, out |-> c.out,
                            cycles |-> IF c.out = "ok"
                                       THEN Append(r.cycles, c.cycle)
                                       ELSE r.cycles],
                           i + 1)

getBoundaryCycles(V, E) ==
    CollectCycles(V,
                  [E |-> [i \in 1..Len(E) |-> [E[i] EXCEPT !.isChecked = FALSE]],
                   out |-> "ok", cycles |-> <<>>],
                  1)

\* ------------------------------------------------------------------ getGenus
getGenus == 0 - 1

\* ------------------------------------------------------------ makeTriangle
\* The mesh makeTriangle returns: no vertex, edge or face is given an ID.
DefaultColor == <<Frac(1, 2), Frac(1, 2), Frac(1, 2)>>

RECURSIVE TriangleLinks(_, _)
TriangleLinks(m, k) ==
    IF k > 2 THEN m
    ELSE LET k1 == (k + 1) % 3
             E1 == [m.E EXCEPT ![k + 1].head = k1 + 1,
                               ![k + 4].head = k + 1,
                               ![k + 1].face = 1]
             E2 == makeNextPrev(E1, k + 1, k1 + 1)
             E3 == makeNextPrev(E2, 4 + k1, 4 + k)
             E4 == [E3 EXCEPT ![k + 1].pair = k + 4, ![k + 4].pair = k + 1]
         IN  TriangleLinks([m EXCEPT !.V[k + 1].h = k + 1, !.E = E4], k + 1)

makeTriangle ==
    TriangleLinks(
        [V |-> << NewHVertex(<<Num(0), Num(0), Num(0)>>, DefaultColor),
                  NewHVertex(<<Num(1), Num(0), Num(0)>>, DefaultColor),
                  NewHVertex(<<Num(0), Num(1), Num(0)>>, DefaultColor) >>,
         E |-> [k \in 1..6 |-> NewHEdge],
         F |-> << [NewHFace EXCEPT !.h = 1] >>],
        0)

\* ------------------------------------------------------------ the machine
\* A session: a mesh is constructed (or made by makeTriangle), a file is
\* loaded into it once, and operators are then called on it in any order.
\* origin records how the mesh was built, last the latest call with its
\* outcome, and moves counts the calls that move vertices.  A call that never
\* returns ("hang") ends the session.
NoSoup == [nV |-> 0, faces |-> <<>>]

\* The factors inflateDeflate is called with.
Factors == { Num(1), Num(0 - 1) }

Mesh == [V |-> vertices, E |-> edges, F |-> faces]

Running == last.out # "hang"

Init ==
    /\ vertices = <<>>
    /\ edges = <<>>
    /\ faces = <<>>
    /\ needsDisplayUpdate = FALSE
    /\ origin = [by |-> "new", res |-> NoSoup, before |-> <<0, 0, 0>>,
                 out |-> "ok"]
    /\ last = [op |-> "new", out |-> "ok"]
    /\ moves = 0

MakeTriangle ==
    /\ origin.by = "new"
    /\ vertices' = makeTriangle.V
    /\ edges' = makeTriangle.E
    /\ faces' = makeTriangle.F
    /\ needsDisplayUpdate' = TRUE
    /\ origin' = [by |-> "makeTriangle", res |-> NoSoup,
                  before |-> <<0, 0, 0>>, out |-> "ok"]
    /\ last' = [op |-> "makeTriangle", out |-> "ok"]
    /\ UNCHANGED moves

LoadFileFromLines ==
    /\ origin.by \in {"new", "makeTriangle"}
    /\ \E res \in Soups :
        LET m == loadFileFromLines(res)
        IN  /\ vertices' = m.V
            /\ edges' = m.E
            /\ faces' = m.F
            /\ needsDisplayUpdate' = IF m.thrown THEN needsDisplayUpdate ELSE TRUE
            /\ origin' = [by |-> "loadFileFromLines", res |-> res,
                          before |-> <<Len(vertices), Len(edges), Len(faces)>>,
                          out |-> IF m.thrown THEN "TypeError" ELSE "ok"]
            /\ last' = [op |-> "loadFileFromLines",
                        out |-> IF m.thrown THEN "TypeError" ELSE "ok"]
    /\ UNCHANGED moves

GetTriangleIndices ==
    /\ Running
    /\ LET r == getTriangleIndices(vertices, edges, faces)
       IN  last' = [op |-> "getTriangleIndices", out |-> r.out, ret |-> r.val]
    /\ UNCHANGED <<vertices, edges, faces, needsDisplayUpdate, origin, moves>>

GetBoundaryCycles ==
    /\ Running
    /\ LET r == getBoundaryCycles(vertices, edges)
       IN  /\ edges' = r.E
           /\ last' = [op |-> "getBoundaryCycles", out |-> r.out,
                       ret |-> r.cycles]
    /\ UNCHANGED <<vertices, faces, needsDisplayUpdate, origin, moves>>

GetGenus ==
    /\ Running
    /\ last' = [op |-> "getGenus", out |-> "ok", ret |-> getGenus]
    /\ UNCHANGED <<vertices, edges, faces, needsDisplayUpdate, origin, moves>>

InflateDeflate ==
    /\ Running
    /\ moves < MaxMoves
    /\ \E fac \in Factors :
        LET r == inflateDeflate(Mesh, fac)
        IN  /\ vertices' = r.V
            /\ needsDisplayUpdate' = IF r.out = "ok" THEN TRUE
                                     ELSE needsDisplayUpdate
            /\ last' = [op |-> "inflateDeflate", out |-> r.out, fac |-> fac,
                        before |-> Mesh]
    /\ moves' = moves + 1
    /\ UNCHANGED <<edges, faces, origin>>

LaplacianSmoothSharpen ==
    /\ Running
    /\ moves < MaxMoves
    /\ \E smooth \in BOOLEAN :
        LET r == laplacianSmoothSharpen(Mesh, smooth)
        IN  /\ vertices' = r.V
            /\ needsDisplayUpdate' = IF r.out = "ok" THEN TRUE
                                     ELSE needsDisplayUpdate
            /\ last' = [op |-> "laplacianSmoothSharpen", out |-> r.out,
                        smooth |-> smooth, before |-> Mesh]
    /\ moves' = moves + 1
    /\ UNCHANGED <<edges, faces, origin>>

GetVertexNeighbors ==
    /\ Running
    /\ \E v \in 1..Len(vertices) :
        LET r == getVertexNeighbors(Mesh, v)
        IN  /\ vertices' = [vertices EXCEPT ![v].h = r.h]
            /\ last' = [op |-> "getVertexNeighbors", out |-> r.out, v |-> v,
                        ret |-> r.val, before |-> vertices[v].h]
    /\ UNCHANGED <<edges, faces, needsDisplayUpdate, origin, moves>>

GetAttachedFaces ==
    /\ Running
    /\ \E v \in 1..Len(vertices) :
        LET r == getAttachedFaces(Mesh, v)
        IN  /\ vertices' = [vertices EXCEPT ![v].h = r.h]
            /\ last' = [op |-> "getAttachedFaces", out |-> r.out, v |-> v,
                        ret |-> r.val, before |-> vertices[v].h]
    /\ UNCHANGED <<edges, faces, needsDisplayUpdate, origin, moves>>

\* Building a mesh and reading it: the topological operators.
Next ==
    \/ MakeTriangle
    \/ LoadFileFromLines
    \/ GetTriangleIndices
    \/ GetBoundaryCycles
    \/ GetGenus

Spec == Init /\ [][Next]_vars

\* Building a mesh and moving its vertices: the geometric operators.
GeomNext ==
    \/ MakeTriangle
    \/ LoadFileFromLines
    \/ InflateDeflate
    \/ LaplacianSmoothSharpen

GeomSpec == Init /\ [][GeomNext]_vars

\* Building a mesh and walking around its vertices: the vertex accessors.
AccessNext ==
    \/ MakeTriangle
    \/ LoadFileFromLines
    \/ GetVertexNeighbors
    \/ GetAttachedFaces

AccessSpec == Init /\ [][AccessNext]_vars

\* ------------------------------------------------- properties of the input
\* Side k of polygon p: the directed vertex pair (p[k], p[k+1]), wrapping.
Side(p, k) == <<p[k], p[(k % Len(p)) + 1]>>

SidesOf(p) == { Side(p, k) : k \in 1..Len(p) }

AllSides(fs) == UNION { SidesOf(fs[i]) : i \in 1..Len(fs) }

RECURSIVE SideCount(_, _)
SideCount(fs, i) == IF i > Len(fs) THEN 0 ELSE Len(fs[i]) + SideCount(fs, i + 1)

\* The directed sides whose reverse is the side of no polygon.
UnpairedSides(fs) == { s \in AllSides(fs) : <<s[2], s[1]>> \notin AllSides(fs) }

\* A polygon proper: at least 3 vertices, no vertex twice.
SimplePolygon(p) ==
    /\ Len(p) >= 3
    /\ \A k, l \in 1..Len(p) : k # l => p[k] # p[l]

\* Two faces both list the same directed vertex pair.
DuplicateDirectedEdge(fs) ==
    \E i, j \in 1..Len(fs) : i # j /\ SidesOf(fs[i]) \cap SidesOf(fs[j]) # {}

\* The faces around vertex v hang together edge by edge (one fan).
FacesAt(fs, v) == { i \in 1..Len(fs) : v \in Range(fs[i]) }

ShareEdgeAt(fs, v, i, j) ==
    \E s \in SidesOf(fs[i]) :
        /\ v \in {s[1], s[2]}
        /\ <<s[2], s[1]>> \in SidesOf(fs[j])

RECURSIVE FanFrom(_, _, _)
FanFrom(fs, v, reached) ==
    LET more == { j \in FacesAt(fs, v) :
                    \E i \in reached : ShareEdgeAt(fs, v, i, j) }
    IN  IF more \subseteq reached THEN reached
        ELSE FanFrom(fs, v, reached \cup more)

OneFan(fs, v) ==
    \/ FacesAt(fs, v) = {}
    \/ FanFrom(fs, v, {CHOOSE i \in FacesAt(fs, v) : TRUE}) = FacesAt(fs, v)

\* A manifold, consistently oriented polygon soup, closed or with boundary.
IsManifoldSoup(res) ==
    /\ \A i \in 1..Len(res.faces) : SimplePolygon(res.faces[i])
    /\ ~DuplicateDirectedEdge(res.faces)
    /\ \A v \in 0..(res.nV - 1) : OneFan(res.faces, v)

Loaded == origin.by = "loadFileFromLines"

LoadedManifold == Loaded /\ IsManifoldSoup(origin.res)

IsEdge(h) == h \in 1..Len(edges)

BoundaryEdges == { h \in 1..Len(edges) : edges[h].face = Null }

Closed == BoundaryEdges = {}

\* ---------------------------------------------------------------------- C1
\* C1: in a mesh loadFileFromLines built from a manifold, consistently
\* oriented soup, every half-edge, interior or boundary, has a pair, and the
\* pair of its pair is the half-edge itself.
C1_PairOfPair ==
    LoadedManifold =>
        \A h \in 1..Len(edges) :
            /\ IsEdge(edges[h].pair)
            /\ edges[edges[h].pair].pair = h

\* A manifold mesh with boundary half-edges and with interior edges whose
\* two sides both have a face.
C1_Witness ==
    /\ LoadedManifold
    /\ BoundaryEdges # {}
    /\ \E h \in 1..Len(edges) :
        edges[h].face # Null /\ edges[edges[h].pair].face # Null

\* ---------------------------------------------------------------------- C2
\* C2: in a mesh built from a manifold soup every half-edge, the null-face
\* ones included, has a next and a prev, and next and prev are inverse to
\* each other.
C2_NextPrev ==
    LoadedManifold =>
        \A h \in 1..Len(edges) :
            /\ IsEdge(edges[h].next)
            /\ IsEdge(edges[h].prev)
            /\ edges[edges[h].next].prev = h
            /\ edges[edges[h].prev].next = h

\* A manifold mesh with a face of 4 sides and boundary half-edges.
C2_Witness ==
    /\ LoadedManifold
    /\ Cardinality(BoundaryEdges) >= 4
    /\ \E i \in 1..Len(origin.res.faces) : Len(origin.res.faces[i]) = 4

\* ---------------------------------------------------------------------- C3
\* The malformed inputs C3 names.
Malformed(res) ==
    \/ DuplicateDirectedEdge(res.faces)
    \/ \E i \in 1..Len(res.faces) : Len(res.faces[i]) < 3

\* Some half-edge has a null or non-mutual pair, next or prev.
PartiallyLinked ==
    \E h \in 1..Len(edges) :
        \/ ~IsEdge(edges[h].pair) \/ ~IsEdge(edges[h].next)
        \/ ~IsEdge(edges[h].prev)
        \/ edges[edges[h].pair].pair # h
        \/ edges[edges[h].next].prev # h
        \/ edges[edges[h].prev].next # h

\* C3: loadFileFromLines fails with MalformedMeshError on an input in which
\* two faces list the same directed vertex pair or a face has fewer than 3
\* vertices, and leaves no partially-linked structure behind.
C3_MalformedRejected ==
    (Loaded /\ Malformed(origin.res)) =>
        /\ origin.out = "MalformedMeshError"
        /\ ~PartiallyLinked

\* ---------------------------------------------------------------------- C4
\* The faces whose getEdges walk visits half-edge h.
FacesVisiting(h) ==
    { f \in 1..Len(faces) : h \in Range(HFace_getEdges(edges, faces[f]).val) }

\* C4: in a mesh built from a manifold soup the walk along next from each
\* face's stored edge comes back after as many steps as the input polygon
\* has vertices (the length of getEdges and of getVertices), visits only
\* half-edges of that face, and every half-edge with a face is visited by
\* the walk of exactly one face.
C4_FaceWalk ==
    LoadedManifold =>
        /\ \A f \in 1..Len(faces) :
            LET es == HFace_getEdges(edges, faces[f])
                vs == HFace_getVertices(edges, faces[f])
            IN  /\ es.out = "ok" /\ vs.out = "ok"
                /\ Len(es.val) = Len(origin.res.faces[f])
                /\ Len(vs.val) = Len(origin.res.faces[f])
                /\ \A k \in 1..Len(es.val) :
                    /\ edges[es.val[k]].face = f
                    /\ edges[es.val[k]].next = es.val[(k % Len(es.val)) + 1]
                /\ \A k, l \in 1..Len(es.val) : k # l => es.val[k] # es.val[l]
        /\ \A h \in 1..Len(edges) :
            edges[h].face # Null => Cardinality(FacesVisiting(h)) = 1

\* A manifold mesh of a quad and a triangle that share edges.
C4_Witness ==
    /\ LoadedManifold
    /\ Len(faces) = 2
    /\ Len(HFace_getEdges(edges, faces[1]).val)
         # Len(HFace_getEdges(edges, faces[2]).val)

\* ---------------------------------------------------------------------- C5
InteriorEdges == { h \in 1..Len(edges) : edges[h].face # Null }

SingleTriangle(res) ==
    /\ res.nV = 3
    /\ Len(res.faces) = 1
    /\ SimplePolygon(res.faces[1])
    /\ Len(res.faces[1]) = 3

\* C5: whatever the mesh held before, after loadFileFromLines it holds one
\* vertex per input position, one face per polygon, one half-edge with a face
\* per directed polygon side, and one null-face half-edge per directed vertex
\* pair that is a side of a polygon while its reverse is a side of none; a
\* single triangle gives 3 vertices, 6 half-edges and 1 face, a tetrahedron 4
\* vertices, 12 half-edges, 4 faces and V - E + F = 2 for E = half-edges / 2.
C5_Counts ==
    Loaded =>
        /\ Len(vertices) = origin.res.nV
        /\ Len(faces) = Len(origin.res.faces)
        /\ Cardinality(InteriorEdges) = SideCount(origin.res.faces, 1)
        /\ Cardinality(BoundaryEdges) =
             Cardinality(UnpairedSides(origin.res.faces))
        /\ SingleTriangle(origin.res) =>
             Len(vertices) = 3 /\ Len(edges) = 6 /\ Len(faces) = 1
        /\ (origin.res.faces = Tetrahedron /\ origin.res.nV = 4) =>
             /\ Len(vertices) = 4 /\ Len(edges) = 12 /\ Len(faces) = 4
             /\ Len(vertices) - (Len(edges) \div 2) + Len(faces) = 2

\* The tetrahedron loaded into a mesh that held makeTriangle's triangle.
C5_Witness ==
    /\ Loaded
    /\ origin.res.faces = Tetrahedron /\ origin.res.nV = 4
    /\ origin.before = <<3, 6, 1>>
    /\ Len(edges) = 12

\* ---------------------------------------------------------------------- C6
\* The positions (cycle, place) at which half-edge h occurs in cycles cs.
Occurrences(cs, h) ==
    { <<i, k>> \in (1..Len(cs)) \X (1..Len(edges)) :
        k <= Len(cs[i]) /\ cs[i][k] = h }

\* C6: on a mesh built from a manifold soup getBoundaryCycles returns a
\* partition of the null-face half-edges (each in exactly one cycle, once, and
\* nothing else), every cycle is linked by next and closes, each cycle starts
\* at its first half-edge in mesh.edges and the cycles come in the order of
\* these; a single triangle gives one cycle of length 3 and a closed mesh
\* none.
C6_BoundaryCycles ==
    (LoadedManifold /\ last.op = "getBoundaryCycles") =>
        /\ last.out = "ok"
        /\ \A h \in 1..Len(edges) :
            Cardinality(Occurrences(last.ret, h)) =
                IF h \in BoundaryEdges THEN 1 ELSE 0
        /\ \A i \in 1..Len(last.ret) :
            LET c == last.ret[i]
            IN  /\ Len(c) > 0
                /\ \A k \in 1..Len(c) : edges[c[k]].next = c[(k % Len(c)) + 1]
                /\ \A k \in 2..Len(c) : c[1] < c[k]
                /\ i > 1 => last.ret[i - 1][1] < c[1]
        /\ SingleTriangle(origin.res) =>
             Len(last.ret) = 1 /\ Len(last.ret[1]) = 3
        /\ Closed => last.ret = <<>>

\* getBoundaryCycles on a manifold mesh with two boundary loops.
C6_Witness ==
    /\ LoadedManifold
    /\ last.op = "getBoundaryCycles"
    /\ Len(last.ret) = 2

\* ---------------------------------------------------------------------- C7
\* Fan triangulation stated on the input: entry j (1-based) of the triples of
\* polygon p is p's first vertex, or vertex t+1 or t+2 of triangle t.
FanEntry(p, j) ==
    LET t == (j - 1) \div 3
        r == (j - 1) % 3
    IN  IF r = 0 THEN p[1] ELSE IF r = 1 THEN p[t + 2] ELSE p[t + 3]

FanOf(p) == [j \in 1..(3 * (Len(p) - 2)) |-> FanEntry(p, j)]

RECURSIVE FansOf(_, _)
FansOf(fs, i) == IF i > Len(fs) THEN <<>> ELSE FanOf(fs[i]) \o FansOf(fs, i + 1)

RECURSIVE Flatten(_, _)
Flatten(fs, i) == IF i > Len(fs) THEN <<>> ELSE fs[i] \o Flatten(fs, i + 1)

AllSimple(res) == \A i \in 1..Len(res.faces) : SimplePolygon(res.faces[i])

\* C7: on a mesh loaded from polygons (3 or more distinct vertices each)
\* getTriangleIndices returns, face after face in face order, the n-2 triples
\* (v0, v(t+1), v(t+2)) of each input polygon (v0 .. v(n-1)); its length is 3
\* times the sum of n-2 over the faces, and for triangles only it has length
\* 3 * faceCount and is the faces' vertex IDs in input order.
C7_TriangleIndices ==
    (Loaded /\ AllSimple(origin.res) /\ last.op = "getTriangleIndices") =>
        /\ last.out = "ok"
        /\ last.ret = FansOf(origin.res.faces, 1)
        /\ Len(last.ret) =
             3 * (SideCount(origin.res.faces, 1) - 2 * Len(faces))
        /\ (\A i \in 1..Len(origin.res.faces) : Len(origin.res.faces[i]) = 3) =>
             /\ Len(last.ret) = 3 * Len(faces)
             /\ last.ret = Flatten(origin.res.faces, 1)

\* getTriangleIndices on a mesh of a quad and a triangle.
C7_Witness ==
    /\ Loaded /\ AllSimple(origin.res)
    /\ last.op = "getTriangleIndices"
    /\ Len(faces) = 2
    /\ Len(last.ret) = 9

\* ---------------------------------------------------------------------- C8
\* The vertices (1-based) that share a polygon side with vertex v.
InputNeighbors(fs, v) ==
    { w \in 1..(SetMax(UNION { Range(fs[i]) : i \in 1..Len(fs) } \cup {0}) + 1) :
        <<v - 1, w - 1>> \in AllSides(fs) \/ <<w - 1, v - 1>> \in AllSides(fs) }

\* The sum over the vertices w of S of pos(w) - pos(v), positions from V.
RECURSIVE SumToward(_, _, _)
SumToward(V, v, S) ==
    IF S = {} THEN VZero
    ELSE LET w == CHOOSE x \in S : TRUE
         IN  VAdd(getVectorBetweenPoints(V[w].pos, V[v].pos),
                  SumToward(V, v, S \ {w}))

\* old_pos(v) + s * mean over the neighbours of v of old_pos(n) - old_pos(v).
MeanMoved(V, fs, v, s) ==
    VAdd(V[v].pos,
         VScale(SumToward(V, v, InputNeighbors(fs, v)),
                Frac(s, Cardinality(InputNeighbors(fs, v)))))

FinitePos(pos) == \A i \in 1..3 : IsFinite(pos[i])

RECURSIVE AttachedArea(_, _)
AttachedArea(m, S) ==
    IF S = {} THEN Num(0)
    ELSE LET f == CHOOSE x \in S : TRUE
         IN  NAdd(HFace_getArea(m, f).val, AttachedArea(m, S \ {f}))

ZeroAreaVertex(m, fs, v) == AttachedArea(m, FacesAt(fs, v - 1)) = Num(0)

\* C9: when some vertex of the mesh has zero total attached face area,
\* inflateDeflate(fac) fails with UndefinedNormalError and leaves every
\* vertex position as it was before the call.
C9_UndefinedNormal ==
    (LoadedManifold /\ Len(faces) > 0 /\ last.op = "inflateDeflate"
        /\ \E v \in 1..Len(last.before.V) :
              ZeroAreaVertex(last.before, origin.res.faces, v)) =>
        /\ last.out = "UndefinedNormalError"
        /\ \A v \in 1..Len(vertices) :
              vertices[v].pos = last.before.V[v].pos

\* --------------------------------------------------------------------- C10
\* C10: getGenus returns 1 - (V - E + F)/2, E = half-edges / 2, on a closed
\* manifold mesh (0 for the tetrahedron), and -1 on a mesh with a boundary
\* half-edge.
C10_Genus ==
    (LoadedManifold /\ last.op = "getGenus" /\ Len(faces) > 0
        /\ origin.res.nV = UsedVerts(origin.res.faces)) =>
        IF Closed
        THEN 2 * (1 - last.ret) =
               Len(vertices) - (Len(edges) \div 2) + Len(faces)
        ELSE last.ret = 0 - 1

\* --------------------------------------------------------------------- C11
\* The heads of the half-edges es, in order.
HeadsOf(es) == [k \in 1..Len(es) |-> edges[es[k]].head]

\* The sequence s rotated by one: it starts with the second element of s.
RotatedByOne(s) == [k \in 1..Len(s) |-> s[(k % Len(s)) + 1]]

\* The faces with a stored edge whose boundary walk comes back to it.
WalkedFaces ==
    { f \in 1..Len(faces) :
        faces[f].h # Null /\ HFace_getEdges(edges, faces[f]).out = "ok" }

\* C11 as the code has it: for every face f with a stored edge getVertices(f)
\* ends as getEdges(f) does and is the sequence of the heads of getEdges(f) in
\* the same order, not rotated: its first element is the head of the first
\* boundary edge, f.h.head.
C11_VerticesAreHeads ==
    \A f \in 1..Len(faces) :
        faces[f].h # Null =>
            /\ HFace_getVertices(edges, faces[f]).out
                 = HFace_getEdges(edges, faces[f]).out
            /\ f \in WalkedFaces =>
                /\ HFace_getVertices(edges, faces[f]).val
                     = HeadsOf(HFace_getEdges(edges, faces[f]).val)
                /\ HFace_getVertices(edges, faces[f]).val[1]
                     = edges[faces[f].h].head

\* A loaded mesh with a quad whose first two boundary edges have different
\* heads, so that the rotated list differs from the list of heads.
C11_Witness ==
    /\ Loaded
    /\ \E f \in WalkedFaces :
        /\ Len(HFace_getVertices(edges, faces[f]).val) = 4
        /\ edges[faces[f].h].head # edges[edges[faces[f].h].next].head

\* C11 as stated: for every face f with a stored edge getVertices(f) is the
\* sequence of the heads of getEdges(f) rotated by one, and its first element
\* is the head of the second boundary edge, f.h.next.head.
C11_VerticesRotated ==
    \A f \in WalkedFaces :
        /\ HFace_getVertices(edges, faces[f]).val
             = RotatedByOne(HeadsOf(HFace_getEdges(edges, faces[f]).val))
        /\ HFace_getVertices(edges, faces[f]).val[1]
             = edges[edges[faces[f].h].next].head

\* --------------------------------------------------------------------- C12
\* Half-edge h is stored correctly at vertex v: its tail is v.
TailIs(h, v) ==
    /\ IsEdge(h)
    /\ IsEdge(edges[h].prev)
    /\ edges[edges[h].prev].head = v
    /\ edges[h].head # v

VertexAccessors == {"getVertexNeighbors", "getAttachedFaces"}

\* C12: in a mesh built by loadFileFromLines from a manifold soup or by
\* makeTriangle, after any sequence of calls of the vertex accessors, every
\* vertex v with a stored edge has v as the tail of v.h (v.h.prev.head is v,
\* v.h.head is not v), and the repair step of an accessor never takes a
\* correctly stored edge to an edge with another tail.
C12_StoredEdgeTail ==
    (LoadedManifold \/ origin.by = "makeTriangle") =>
        /\ \A v \in 1..Len(vertices) :
            vertices[v].h # Null => TailIs(vertices[v].h, v)
        /\ (last.op \in VertexAccessors /\ TailIs(last.before, last.v)) =>
              TailIs(vertices[last.v].h, last.v)

\* --------------------------------------------------------------------- C13
\* No item occurs twice in the sequence s.
NoRepeats(s) == \A k, l \in 1..Len(s) : k # l => s[k] # s[l]

\* Vertex v (1-based) is used by a face of the input.
HasFace(v) == FacesAt(origin.res.faces, v - 1) # {}

\* Vertex v is the head of a null-face half-edge.
OnBoundary(v) == \E h \in BoundaryEdges : edges[h].head = v

\* C13: on a mesh built from a manifold soup, for every vertex v used by a
\* face, interior or on a boundary, getVertexNeighbors(v) returns each vertex
\* that shares a polygon side with v exactly once and no other vertex, and
\* getAttachedFaces(v) returns each face that contains v exactly once and no
\* other face.
C13_NeighborsAndFaces ==
    (LoadedManifold /\ last.op \in VertexAccessors /\ HasFace(last.v)) =>
        /\ last.out = "ok"
        /\ NoRepeats(last.ret)
        /\ last.op = "getVertexNeighbors" =>
             /\ Range(last.ret) = InputNeighbors(origin.res.faces, last.v)
             /\ last.v \notin Range(last.ret)
        /\ last.op = "getAttachedFaces" =>
             Range(last.ret) = FacesAt(origin.res.faces, last.v - 1)

\* getAttachedFaces on a boundary vertex of a manifold mesh that lies on two
\* faces.
C13_Witness ==
    /\ LoadedManifold
    /\ last.op = "getAttachedFaces"
    /\ OnBoundary(last.v)
    /\ Len(last.ret) = 2

\* --------------------------------------------------------------------- C14
\* C14: on every mesh loadFileFromLines can leave behind, from manifold input
\* or not (stated here for the loads that returned normally),
\* getVertexNeighbors and getAttachedFaces return, or fail with
\* NonManifoldError, after a bounded number of steps: they neither loop
\* forever nor dereference a null link.
C14_BoundedWalk ==
    (Loaded /\ origin.out = "ok" /\ last.op \in VertexAccessors) =>
        last.out \in {"ok", "NonManifoldError"}

====
